---- MODULE Spec2Model ----
(***************************************************************************)
(* Model of the kid-speak-learn voice tutoring backend.                    *)
(*                                                                         *)
(*   src/server.js          POST /api/ask of the updated server: Firebase  *)
(*                          token middleware, validation, the pipeline     *)
(*                          transcribe -> clean -> generate -> synthesize, *)
(*                          Firestore persistence, error mapping.          *)
(*   src/unnamed/part_000   POST /api/ask of the first revision: audio     *)
(*                          only, transcribe -> generate -> synthesize.    *)
(*                                                                         *)
(* Every await of the handlers is a state: a request slot sits at the call *)
(* it is waiting for, and the completion (or failure) of the call is an    *)
(* action.  Values that JavaScript may hand the handler (undefined, a      *)
(* string, a non-string such as a number) are tagged records, strings are  *)
(* sequences of characters.                                                *)
(***************************************************************************)
EXTENDS Integers, Sequences, FiniteSets, TLC

----------------------------------------------------------------------------
(* Bounds of the model *)

\* longest conversation history a client supplies
MaxHist == 14
\* most words in one error message
MaxTokens == 4
\* most requests served in the concurrent specification
MaxRequests == 3

----------------------------------------------------------------------------
(* JavaScript values *)

Undefined == [t |-> "undefined", s |-> <<>>]
Num == [t |-> "number", s |-> <<>>]
Str(s) == [t |-> "string", s |-> s]
EmptyStr == Str(<<>>)

\* truthiness of a value: undefined and '' are falsy, a non-zero number is truthy
Truthy(v) == (v.t = "string" /\ v.s # <<>>) \/ v.t = "number"

\* a || b
OrElse(a, b) == IF Truthy(a) THEN a ELSE b

IsSpace(c) == c = " "

RECURSIVE TrimStart(_)
TrimStart(s) ==
  IF s # <<>> /\ IsSpace(Head(s)) THEN TrimStart(Tail(s)) ELSE s

RECURSIVE TrimEnd(_)
TrimEnd(s) ==
  IF s # <<>> /\ IsSpace(s[Len(s)]) THEN TrimEnd(SubSeq(s, 1, Len(s) - 1)) ELSE s

\* String.prototype.trim
Trim(s) == TrimEnd(TrimStart(s))

\* (v || '').trim(): a TypeError when v is truthy and not a string
FieldThrows(v) == OrElse(v, EmptyStr).t # "string"
FieldValue(v) == Trim(OrElse(v, EmptyStr).s)

Max(a, b) == IF a >= b THEN a ELSE b
Min(a, b) == IF a <= b THEN a ELSE b

\* Array.prototype.slice(-k), k > 0: the last k elements, all of them when fewer
SliceLast(a, k) == SubSeq(a, Max(Len(a) - k, 0) + 1, Len(a))

----------------------------------------------------------------------------
(* Program constants *)

MAX_TURNS == 6
MinAudioBytes == 5000

----------------------------------------------------------------------------
(* Conversation history *)

Turn(role, i) == [role |-> role, content |-> i]

Other(role) == IF role = "user" THEN "assistant" ELSE "user"

\* n turns that alternate, the first one spoken by `first'; the content of a
\* turn is its position in the history
Alternating(n, first) ==
  [i \in 1..n |-> Turn(IF i % 2 = 1 THEN first ELSE Other(first), i)]

Histories ==
  {Alternating(n, first) : n \in 0..MaxHist, first \in {"user", "assistant"}}

\* body.history as it arrives
NoHistory == [kind |-> "undefined", items |-> <<>>]
HistoryInputs ==
  {[kind |-> "array", items |-> h] : h \in Histories}
    \cup {[kind |-> "jsonarray", items |-> h] : h \in {Alternating(2, "user"), Alternating(MaxHist, "user")}}
    \cup {[kind |-> k, items |-> <<>>] : k \in {"badjson", "jsonobject", "object"}}

\* lines 87-95: a JSON string is parsed; whatever is not an array, or does not
\* parse, is the empty history
ParseHistory(h) ==
  CASE h.kind = "undefined" -> <<>>
    [] h.kind = "array" -> h.items
    [] h.kind = "jsonarray" -> h.items
    [] h.kind = "badjson" -> <<>>
    [] h.kind = "jsonobject" -> <<>>
    [] h.kind = "object" -> <<>>

\* the history passed on as it came
SafeHistoryUntrimmed(clientHistory) == clientHistory

\* line 136
SafeHistory(clientHistory) == SliceLast(clientHistory, MAX_TURNS * 2)

SystemPrompt(answerLanguage) ==
  [role |-> "system", content |-> <<"always answer in", answerLanguage>>]

\* lines 143-147
Messages(answerLanguage, clientHistory, userText) ==
  <<SystemPrompt(answerLanguage)>>
    \o SafeHistory(clientHistory)
    \o <<[role |-> "user", content |-> userText]>>

----------------------------------------------------------------------------
(* Errors thrown inside the handlers, and the catch of server.js *)

\* the words an error message is made of
Words == {"Too", "short", "shorter", "than", "invalid", "Language"}

RECURSIVE SeqsUpTo(_, _)
SeqsUpTo(S, n) ==
  IF n = 0 THEN {<<>>}
  ELSE LET shorter == SeqsUpTo(S, n - 1)
       IN  shorter \cup {Append(m, w) : m \in {x \in shorter : Len(x) = n - 1}, w \in S}

ErrorMessages == SeqsUpTo(Words, MaxTokens)

\* err.error.message (of the provider's API errors) and err.message
Err(nested, message) == [nested |-> nested, message |-> message]

Errors ==
  {Err(<<>>, m) : m \in ErrorMessages}
    \cup {Err(n, m) : n \in {<<"Too", "short">>, <<"invalid">>},
                      m \in {<<>>, <<"shorter", "than">>, <<"invalid", "Language">>}}

\* the failures tried where the message is not what is examined
ErrorsBasic ==
  {Err(<<>>, <<>>), Err(<<>>, <<"Too", "short">>), Err(<<>>, <<"invalid", "Language">>),
   Err(<<"shorter", "than">>, <<"invalid">>)}

\* the TypeError of calling .trim on a non-string
TypeError == Err(<<>>, <<"trim", "is", "not", "a", "function">>)

LowerWord(w) ==
  CASE w = "Too" -> "too"
    [] w = "Language" -> "language"
    [] OTHER -> w

\* String.prototype.toLowerCase
ToLowerCase(m) == [i \in 1..Len(m) |-> LowerWord(m[i])]

\* String.prototype.includes, for a pattern of whole words
Includes(m, pattern) ==
  \E i \in 1..(Len(m) - Len(pattern) + 1) :
    SubSeq(m, i, i + Len(pattern) - 1) = pattern

\* line 194
CaughtMessage(err) ==
  ToLowerCase(IF err.nested # <<>> THEN err.nested
              ELSE IF err.message # <<>> THEN err.message ELSE <<>>)

----------------------------------------------------------------------------
(* Responses *)

Absent == "<absent>"
NoResponse ==
  [status |-> 0, keys |-> {}, error |-> Absent, message |-> Absent,
   conversationId |-> <<>>, transcript |-> <<>>, text |-> <<>>, audioBase64 |-> <<>>]

\* res.status(status).json({ error, message })
ErrorResponse(status, code, message) ==
  [NoResponse EXCEPT !.status = status, !.keys = {"error", "message"},
                     !.error = code, !.message = message]

\* res.status(status).json({ error })
BareErrorResponse(status, code) ==
  [NoResponse EXCEPT !.status = status, !.keys = {"error"}, !.error = code]

\* lines 187-192
SuccessResponse(conversationId, userText, assistantText, base64Audio) ==
  [NoResponse EXCEPT !.status = 200,
                     !.keys = {"conversationId", "transcript", "text", "audioBase64"},
                     !.conversationId = conversationId, !.transcript = userText,
                     !.text = assistantText, !.audioBase64 = base64Audio]

\* part_000 lines 68-72
SuccessResponse0(userText, assistantText, base64Audio) ==
  [NoResponse EXCEPT !.status = 200, !.keys = {"transcript", "text", "audioBase64"},
                     !.transcript = userText, !.text = assistantText,
                     !.audioBase64 = base64Audio]

\* the catch with res.status(...) forgotten: Express answers 200
MapErrorNoStatus(err) ==
  LET msg == CaughtMessage(err)
  IN  IF Includes(msg, <<"shorter", "than">>) \/ Includes(msg, <<"too", "short">>)
        THEN ErrorResponse(200, "audio_too_short", "Audio too short. Please record at least 1 second.")
      ELSE IF Includes(msg, <<"invalid">>) /\ Includes(msg, <<"language">>)
        THEN ErrorResponse(200, "invalid_language", "Unsupported language code.")
      ELSE ErrorResponse(200, "processing_failed", "Something went wrong while processing input.")

\* the catch with its two tests in the other order
MapErrorLanguageFirst(err) ==
  LET msg == CaughtMessage(err)
  IN  IF Includes(msg, <<"invalid">>) /\ Includes(msg, <<"language">>)
        THEN ErrorResponse(400, "invalid_language", "Unsupported language code.")
      ELSE IF Includes(msg, <<"shorter", "than">>) \/ Includes(msg, <<"too", "short">>)
        THEN ErrorResponse(400, "audio_too_short", "Audio too short. Please record at least 1 second.")
      ELSE ErrorResponse(500, "processing_failed", "Something went wrong while processing input.")

\* the catch with another name for the generic failure
MapErrorInternal(err) ==
  LET msg == CaughtMessage(err)
  IN  IF Includes(msg, <<"shorter", "than">>) \/ Includes(msg, <<"too", "short">>)
        THEN ErrorResponse(400, "audio_too_short", "Audio too short. Please record at least 1 second.")
      ELSE IF Includes(msg, <<"invalid">>) /\ Includes(msg, <<"language">>)
        THEN ErrorResponse(400, "invalid_language", "Unsupported language code.")
      ELSE ErrorResponse(500, "internal_error", "Something went wrong while processing input.")

\* lines 193-203
MapError(err) ==
  LET msg == CaughtMessage(err)
  IN  IF Includes(msg, <<"shorter", "than">>) \/ Includes(msg, <<"too", "short">>)
        THEN ErrorResponse(400, "audio_too_short", "Audio too short. Please record at least 1 second.")
      ELSE IF Includes(msg, <<"invalid">>) /\ Includes(msg, <<"language">>)
        THEN ErrorResponse(400, "invalid_language", "Unsupported language code.")
      ELSE ErrorResponse(500, "processing_failed", "Something went wrong while processing input.")

----------------------------------------------------------------------------
(* Requests *)

\* the Authorization header: scheme, the number of blanks after it, the rest
NoAuthorization == [scheme |-> "", blanks |-> 0, credentials |-> ""]
Authorization(scheme, blanks, credentials) ==
  [scheme |-> scheme, blanks |-> blanks, credentials |-> credentials]

\* authHdr.match(/^Bearer\s+(.*)$/i), line 54
TokenMatch(authHdr) ==
  authHdr.scheme \in {"Bearer", "bearer", "BEARER"} /\ authHdr.blanks >= 1

\* the ID tokens Firebase would accept, and the user each one belongs to
GoodTokens == {"token-a"}
TokenUid(idToken) == <<"a">>

NoFile == [present |-> FALSE, size |-> 0]
File(size) == [present |-> TRUE, size |-> size]

\* a well-formed voice request to server.js, without a user
BaseRequest ==
  [server |-> "server.js",
   answerLanguage |-> Str(<<"H">>), speakLanguage |-> Str(<<"T">>),
   conversationId |-> Str(<<"c">>), uid |-> Undefined,
   history |-> NoHistory, authorization |-> NoAuthorization,
   file |-> File(MinAudioBytes), text |-> Undefined]

FieldInputs == {Undefined, Str(<<" ">>), Str(<<" ", "v", " ">>), Num}
UidInputs == {Undefined, Str(<<"a">>), Str(<<"b">>), Num}
TextInputs == {Undefined, Str(<<" ">>), Str(<<" ", "q">>), Num}
FileInputs == {NoFile, File(MinAudioBytes - 1), File(MinAudioBytes), File(MinAudioBytes + 1)}
AuthorizationInputs ==
  {NoAuthorization, Authorization("Basic", 1, "token-a"), Authorization("Bearer", 0, "token-a"),
   Authorization("Bearer", 1, ""), Authorization("Bearer", 1, "forged"),
   Authorization("Bearer", 1, "token-a"), Authorization("bearer", 2, "token-a")}

\* the fields the validator looks at
ValidationRequests ==
  {[BaseRequest EXCEPT !.conversationId = c, !.answerLanguage = a,
                       !.speakLanguage = s, !.uid = u] :
     c \in FieldInputs, a \in FieldInputs, s \in FieldInputs, u \in {Undefined, Str(<<"a">>), Num}}

\* audio, text, or neither
InputRequests ==
  {[BaseRequest EXCEPT !.file = f, !.text = t, !.uid = u] :
     f \in FileInputs, t \in TextInputs, u \in {Undefined, Str(<<"a">>)}}

\* who the request says it is from, and what it proves
AuthRequests ==
  {[BaseRequest EXCEPT !.uid = u, !.authorization = h, !.file = f, !.text = Str(<<"q">>)] :
     u \in UidInputs, h \in AuthorizationInputs, f \in {NoFile, File(MinAudioBytes)}}

\* the conversation so far
HistoryRequests ==
  {[BaseRequest EXCEPT !.history = h, !.file = NoFile, !.text = Str(<<"q">>)] :
     h \in HistoryInputs}

Requests == ValidationRequests \cup InputRequests \cup AuthRequests \cup HistoryRequests

\* the requests of the runs that examine error messages
ErrorRequests == {BaseRequest}

\* the requests of the concurrent runs: one conversation, two users
ConcurrentRequests ==
  {[BaseRequest EXCEPT !.uid = u, !.file = NoFile, !.text = Str(t)] :
     u \in {Str(<<"a">>), Str(<<"b">>)}, t \in {<<"q">>}}

\* a request to the first revision (part_000): multipart or not, with or
\* without the audio part
Request0(multipart, targetLanguage, file) ==
  [server |-> "part_000", multipart |-> multipart,
   targetLanguage |-> targetLanguage, file |-> file]

Requests0 ==
  {Request0(TRUE, l, f) : l \in {Undefined, Str(<<"H", " ">>), Num}, f \in {NoFile, File(1), File(MinAudioBytes)}}
    \cup {Request0(FALSE, Undefined, NoFile)}

\* what the provider may answer
SttTexts == {Undefined, Str(<<" ", "w">>)}
CleanTexts == {Undefined, Str(<<"k", " ">>)}
ReplyTexts == {Undefined, Str(<<"r", " ">>)}
Audios == {<<7>>}

\* Buffer.from(bytes).toString('base64')
Base64(bytes) == <<"base64">> \o bytes

----------------------------------------------------------------------------
(* State *)

VARIABLES
  adminApp,          \* Firebase Admin was initialised (lines 21-29)
  CLEAN_TRANSCRIPT,  \* line 34
  pc,                \* where each request is: the await it sits at
  request,           \* the request as received
  reqId,             \* the number of the request a slot is serving
  firebaseUser,      \* req.firebaseUser
  locals,            \* the handler's consts and lets
  messages,          \* the input of the reply-generation call
  events,            \* the external calls of the request: start, ok, fail
  thrown,            \* what the handler's catch caught
  persist,           \* Firestore writes of the request: how many done, failed or not
  response,          \* what res.json sent
  chats,             \* users/<uid>/chats/<conversationId> documents
  store,             \* the documents of the messages collections, in creation order
  served             \* requests received so far

vars ==
  <<adminApp, CLEAN_TRANSCRIPT, pc, request, reqId, firebaseUser, locals, messages,
    events, thrown, persist, response, chats, store, served>>

Slots == {1, 2}

NoRequest == [server |-> "none"]
NoUser == [present |-> FALSE, uid |-> <<>>]
User(uid) == [present |-> TRUE, uid |-> uid]
NoLocals ==
  [answerLanguage |-> <<>>, speakLanguage |-> <<>>, conversationId |-> <<>>, uid |-> <<>>,
   clientHistory |-> <<>>, userText |-> <<>>, assistantText |-> <<>>, base64Audio |-> <<>>]
NotThrown == [caught |-> FALSE, err |-> Err(<<>>, <<>>)]
Thrown(err) == [caught |-> TRUE, err |-> err]
NoPersist == [written |-> 0, failed |-> FALSE]

Ev(call, ev) == [call |-> call, ev |-> ev]

Init ==
  /\ adminApp \in BOOLEAN
  /\ CLEAN_TRANSCRIPT \in BOOLEAN
  /\ pc = [r \in Slots |-> "idle"]
  /\ request = [r \in Slots |-> NoRequest]
  /\ reqId = [r \in Slots |-> 0]
  /\ firebaseUser = [r \in Slots |-> NoUser]
  /\ locals = [r \in Slots |-> NoLocals]
  /\ messages = [r \in Slots |-> <<>>]
  /\ events = [r \in Slots |-> <<>>]
  /\ thrown = [r \in Slots |-> NotThrown]
  /\ persist = [r \in Slots |-> NoPersist]
  /\ response = [r \in Slots |-> NoResponse]
  /\ chats = {}
  /\ store = <<>>
  /\ served = 0

----------------------------------------------------------------------------
(* Steps shared by the actions *)

\* res.json(...) and the end of the handler
Respond(r, resp) ==
  /\ pc' = [pc EXCEPT ![r] = "done"]
  /\ response' = [response EXCEPT ![r] = resp]

\* a request arrives: the handler starts from nothing
Arrive(r, q) ==
  /\ served' = served + 1
  /\ reqId' = [reqId EXCEPT ![r] = served + 1]
  /\ request' = [request EXCEPT ![r] = q]
  /\ firebaseUser' = [firebaseUser EXCEPT ![r] = NoUser]
  /\ locals' = [locals EXCEPT ![r] = NoLocals]
  /\ messages' = [messages EXCEPT ![r] = <<>>]
  /\ events' = [events EXCEPT ![r] = <<>>]
  /\ thrown' = [thrown EXCEPT ![r] = NotThrown]
  /\ persist' = [persist EXCEPT ![r] = NoPersist]
  /\ response' = [response EXCEPT ![r] = NoResponse]
  /\ UNCHANGED <<adminApp, CLEAN_TRANSCRIPT, chats, store>>

\* lines 193-203: the catch of server.js
Catch(r, err, evs) ==
  /\ thrown' = [thrown EXCEPT ![r] = Thrown(err)]
  /\ events' = [events EXCEPT ![r] = @ \o evs]
  /\ Respond(r, MapError(err))

\* lines 143-149: compose the messages and call the reply generation
StartGenerate(r, l, evs) ==
  /\ locals' = [locals EXCEPT ![r] = l]
  /\ messages' = [messages EXCEPT ![r] = Messages(l.answerLanguage, l.clientHistory, l.userText)]
  /\ events' = [events EXCEPT ![r] = @ \o evs \o <<Ev("generate", "start")>>]
  /\ pc' = [pc EXCEPT ![r] = "generate"]

\* lines 124-149: the user's text is known; clean it when configured, else generate
AfterUserText(r, l, evs) ==
  IF CLEAN_TRANSCRIPT /\ l.userText # <<>>
    THEN /\ locals' = [locals EXCEPT ![r] = l]
         /\ events' = [events EXCEPT ![r] = @ \o evs \o <<Ev("clean", "start")>>]
         /\ pc' = [pc EXCEPT ![r] = "clean"]
         /\ UNCHANGED messages
    ELSE StartGenerate(r, l, evs)

----------------------------------------------------------------------------
(* src/server.js *)

\* a POST /api/ask reaches the updated server
Receive(r, qs, max) ==
  /\ pc[r] \in {"idle", "done"}
  /\ served < max
  /\ \E q \in qs : q.server = "server.js" /\ Arrive(r, q)
  /\ pc' = [pc EXCEPT ![r] = "middleware"]

\* lines 52-68; serviceUp: verifyIdToken could reach Firebase
VerifyFirebaseToken(r, serviceUp) ==
  /\ pc[r] = "middleware"
  /\ LET authHdr == request[r].authorization
     IN  firebaseUser' =
           [firebaseUser EXCEPT ![r] =
              IF TokenMatch(authHdr) /\ adminApp
                THEN IF authHdr.credentials \in GoodTokens /\ serviceUp
                       THEN User(TokenUid(authHdr.credentials))
                       ELSE NoUser
                ELSE NoUser]
  /\ pc' = [pc EXCEPT ![r] = "handler"]
  /\ UNCHANGED <<adminApp, CLEAN_TRANSCRIPT, request, reqId, locals, messages, events,
                 thrown, persist, response, chats, store, served>>

\* lines 79-122: parse the fields, validate, choose the input
AskBegin(r) ==
  /\ pc[r] = "handler"
  /\ LET body == request[r]
         file == request[r].file
         l == [NoLocals EXCEPT !.answerLanguage = FieldValue(body.answerLanguage),
                               !.speakLanguage = FieldValue(body.speakLanguage),
                               !.conversationId = FieldValue(body.conversationId),
                               !.uid = FieldValue(body.uid),
                               !.clientHistory = ParseHistory(body.history)]
     IN  IF \/ FieldThrows(body.answerLanguage) \/ FieldThrows(body.speakLanguage)
            \/ FieldThrows(body.conversationId) \/ FieldThrows(body.uid)
           THEN /\ Catch(r, TypeError, <<>>)
                /\ UNCHANGED <<locals, messages>>
         ELSE IF l.conversationId = <<>>
           THEN /\ Respond(r, ErrorResponse(400, "missing_conversation", "No conversationId provided."))
                /\ locals' = [locals EXCEPT ![r] = l]
                /\ UNCHANGED <<messages, events, thrown>>
         ELSE IF l.answerLanguage = <<>> \/ l.speakLanguage = <<>>
           THEN /\ Respond(r, ErrorResponse(400, "missing_language",
                                            "Please select both Speaking and Answer languages."))
                /\ locals' = [locals EXCEPT ![r] = l]
                /\ UNCHANGED <<messages, events, thrown>>
         ELSE IF /\ l.uid # <<>> /\ firebaseUser[r].present
                 /\ firebaseUser[r].uid # <<>> /\ l.uid # firebaseUser[r].uid
           THEN /\ Respond(r, ErrorResponse(401, "unauthenticated",
                                            "UID does not match authenticated user."))
                /\ locals' = [locals EXCEPT ![r] = l]
                /\ UNCHANGED <<messages, events, thrown>>
         ELSE IF file.present /\ file.size >= MinAudioBytes
           THEN /\ locals' = [locals EXCEPT ![r] = l]
                /\ events' = [events EXCEPT ![r] = @ \o <<Ev("transcribe", "start")>>]
                /\ pc' = [pc EXCEPT ![r] = "stt"]
                /\ UNCHANGED <<messages, thrown, response>>
         ELSE IF Truthy(body.text) /\ body.text.t = "string" /\ Trim(body.text.s) # <<>>
           THEN /\ AfterUserText(r, [l EXCEPT !.userText = Trim(body.text.s)], <<>>)
                /\ UNCHANGED <<thrown, response>>
         ELSE /\ Respond(r, ErrorResponse(400, "no_input", "No valid audio or text provided."))
              /\ locals' = [locals EXCEPT ![r] = l]
              /\ UNCHANGED <<messages, events, thrown>>
  /\ UNCHANGED <<adminApp, CLEAN_TRANSCRIPT, request, reqId, firebaseUser, persist,
                 chats, store, served>>

\* lines 111-117: the transcription arrived
TranscribeDone(r, sttText) ==
  /\ pc[r] = "stt"
  /\ AfterUserText(r, [locals[r] EXCEPT !.userText = Trim(OrElse(sttText, EmptyStr).s)],
                   <<Ev("transcribe", "ok")>>)
  /\ UNCHANGED <<adminApp, CLEAN_TRANSCRIPT, request, reqId, firebaseUser, thrown, persist,
                 response, chats, store, served>>

\* lines 125-132: the cleaned transcript arrived
CleanDone(r, outputText) ==
  /\ pc[r] = "clean"
  /\ StartGenerate(r, [locals[r] EXCEPT
                         !.userText = Trim(OrElse(outputText, Str(locals[r].userText)).s)],
                   <<Ev("clean", "ok")>>)
  /\ UNCHANGED <<adminApp, CLEAN_TRANSCRIPT, request, reqId, firebaseUser, thrown, persist,
                 response, chats, store, served>>

\* lines 149-157: the reply arrived; synthesize it
GenerateDone(r, outputText) ==
  /\ pc[r] = "generate"
  /\ locals' = [locals EXCEPT ![r].assistantText = Trim(OrElse(outputText, EmptyStr).s)]
  /\ events' = [events EXCEPT ![r] = @ \o <<Ev("generate", "ok"), Ev("synthesize", "start")>>]
  /\ pc' = [pc EXCEPT ![r] = "tts"]
  /\ UNCHANGED <<adminApp, CLEAN_TRANSCRIPT, request, reqId, firebaseUser, messages, thrown,
                 persist, response, chats, store, served>>

\* the external call a request is waiting for
CallAt(p) ==
  CASE p \in {"stt", "stt0"} -> "transcribe"
    [] p = "clean" -> "clean"
    [] p \in {"generate", "generate0"} -> "generate"
    [] p \in {"tts", "tts0"} -> "synthesize"

\* lines 159-192: the audio arrived; persist when there is a user, then respond
SynthesizeDone(r, audio) ==
  /\ pc[r] = "tts"
  /\ LET l == [locals[r] EXCEPT !.base64Audio = Base64(audio)]
     IN  /\ locals' = [locals EXCEPT ![r] = l]
         /\ events' = [events EXCEPT ![r] = @ \o <<Ev("synthesize", "ok")>>]
         /\ IF adminApp /\ l.uid # <<>>
              THEN /\ pc' = [pc EXCEPT ![r] = "fs_chat"]
                   /\ UNCHANGED response
              ELSE Respond(r, SuccessResponse(l.conversationId, l.userText,
                                              l.assistantText, l.base64Audio))
  /\ UNCHANGED <<adminApp, CLEAN_TRANSCRIPT, request, reqId, firebaseUser, messages, thrown,
                 persist, chats, store, served>>

\* an awaited call of the pipeline rejects: lines 111, 125, 149, 152-158 into 193
CallFail(r, errs) ==
  /\ pc[r] \in {"stt", "clean", "generate", "tts"}
  /\ \E err \in errs : Catch(r, err, <<Ev(CallAt(pc[r]), "fail")>>)
  /\ UNCHANGED <<adminApp, CLEAN_TRANSCRIPT, request, reqId, firebaseUser, locals, messages,
                 persist, chats, store, served>>

\* a document of users/<uid>/chats/<conversationId>/messages
Message(r, role, content) ==
  [uid |-> locals[r].uid, conversationId |-> locals[r].conversationId,
   role |-> role, content |-> content, req |-> reqId[r]]

\* a write to one fixed document, which replaces what was there
OverwriteMessage(docs, doc) == <<doc>>

\* collection.add: a new document, after those already there
AddMessage(docs, doc) == Append(docs, doc)

\* line 165: chatRef.set(..., { merge: true }) succeeded
ChatSetDone(r) ==
  /\ pc[r] = "fs_chat"
  /\ chats' = chats \cup {<<locals[r].uid, locals[r].conversationId>>}
  /\ persist' = [persist EXCEPT ![r].written = 1]
  /\ pc' = [pc EXCEPT ![r] = "fs_user"]
  /\ UNCHANGED <<adminApp, CLEAN_TRANSCRIPT, request, reqId, firebaseUser, locals, messages,
                 events, thrown, response, store, served>>

\* lines 167-173: the user message was added
UserMessageAdded(r) ==
  /\ pc[r] = "fs_user"
  /\ store' = AddMessage(store, Message(r, "user", locals[r].userText))
  /\ persist' = [persist EXCEPT ![r].written = 2]
  /\ pc' = [pc EXCEPT ![r] = "fs_assistant"]
  /\ UNCHANGED <<adminApp, CLEAN_TRANSCRIPT, request, reqId, firebaseUser, locals, messages,
                 events, thrown, response, chats, served>>

\* lines 175-192: the assistant message was added; respond
AssistantMessageAdded(r) ==
  /\ pc[r] = "fs_assistant"
  /\ store' = AddMessage(store, Message(r, "assistant", locals[r].assistantText))
  /\ persist' = [persist EXCEPT ![r].written = 3]
  /\ Respond(r, SuccessResponse(locals[r].conversationId, locals[r].userText,
                                locals[r].assistantText, locals[r].base64Audio))
  /\ UNCHANGED <<adminApp, CLEAN_TRANSCRIPT, request, reqId, firebaseUser, locals, messages,
                 events, thrown, chats, served>>

\* the writes without a catch of their own: the failure reaches the handler's catch
PersistFailureRethrown(l) == MapError(Err(<<>>, <<"firestore", "unavailable">>))

\* lines 182-192: what the handler answers after the catch around the writes
PersistFailureResponse(l) ==
  SuccessResponse(l.conversationId, l.userText, l.assistantText, l.base64Audio)

\* lines 161-192: a Firestore write rejects; the error is logged, the handler responds
PersistFail(r) ==
  /\ pc[r] \in {"fs_chat", "fs_user", "fs_assistant"}
  /\ persist' = [persist EXCEPT ![r].failed = TRUE]
  /\ Respond(r, PersistFailureResponse(locals[r]))
  /\ UNCHANGED <<adminApp, CLEAN_TRANSCRIPT, request, reqId, firebaseUser, locals, messages,
                 events, thrown, chats, store, served>>

----------------------------------------------------------------------------
(* src/unnamed/part_000: the first revision *)

English == Str(<<"E">>)

\* a POST /api/ask reaches the first revision
Receive0(r, qs, max) ==
  /\ pc[r] \in {"idle", "done"}
  /\ served < max
  /\ \E q \in qs : q.server = "part_000" /\ Arrive(r, q)
  /\ pc' = [pc EXCEPT ![r] = "handler0"]

\* part_000 lines 73-76: the catch
Catch0(r, err, evs) ==
  /\ thrown' = [thrown EXCEPT ![r] = Thrown(err)]
  /\ events' = [events EXCEPT ![r] = @ \o evs]
  /\ Respond(r, BareErrorResponse(500, "processing_failed"))

\* part_000 lines 26-38
Ask0Begin(r) ==
  /\ pc[r] = "handler0"
  /\ LET q == request[r]
     IN  IF ~q.multipart \/ OrElse(q.targetLanguage, English).t # "string"
           THEN /\ Catch0(r, TypeError, <<>>)
                /\ UNCHANGED locals
         ELSE IF ~q.file.present
           THEN /\ Respond(r, BareErrorResponse(400, "no_audio"))
                /\ locals' = [locals EXCEPT ![r].answerLanguage =
                                Trim(OrElse(q.targetLanguage, English).s)]
                /\ UNCHANGED <<events, thrown>>
         ELSE /\ locals' = [locals EXCEPT ![r].answerLanguage =
                              Trim(OrElse(q.targetLanguage, English).s)]
              /\ events' = [events EXCEPT ![r] = @ \o <<Ev("transcribe", "start")>>]
              /\ pc' = [pc EXCEPT ![r] = "stt0"]
              /\ UNCHANGED <<thrown, response>>
  /\ UNCHANGED <<adminApp, CLEAN_TRANSCRIPT, request, reqId, firebaseUser, messages, persist,
                 chats, store, served>>

\* part_000 lines 44-52
Messages0(targetLanguage, userText) ==
  <<SystemPrompt(targetLanguage), [role |-> "user", content |-> userText]>>

\* part_000 lines 39-53
Transcribe0Done(r, sttText) ==
  /\ pc[r] = "stt0"
  /\ LET userText == Trim(OrElse(sttText, EmptyStr).s)
     IN  /\ locals' = [locals EXCEPT ![r].userText = userText]
         /\ messages' = [messages EXCEPT ![r] = Messages0(locals[r].answerLanguage, userText)]
  /\ events' = [events EXCEPT ![r] = @ \o <<Ev("transcribe", "ok"), Ev("generate", "start")>>]
  /\ pc' = [pc EXCEPT ![r] = "generate0"]
  /\ UNCHANGED <<adminApp, CLEAN_TRANSCRIPT, request, reqId, firebaseUser, thrown, persist,
                 response, chats, store, served>>

\* part_000 lines 55-63
Generate0Done(r, outputText) ==
  /\ pc[r] = "generate0"
  /\ locals' = [locals EXCEPT ![r].assistantText = Trim(OrElse(outputText, EmptyStr).s)]
  /\ events' = [events EXCEPT ![r] = @ \o <<Ev("generate", "ok"), Ev("synthesize", "start")>>]
  /\ pc' = [pc EXCEPT ![r] = "tts0"]
  /\ UNCHANGED <<adminApp, CLEAN_TRANSCRIPT, request, reqId, firebaseUser, messages, thrown,
                 persist, response, chats, store, served>>

\* part_000 lines 65-72
Synthesize0Done(r, audio) ==
  /\ pc[r] = "tts0"
  /\ locals' = [locals EXCEPT ![r].base64Audio = Base64(audio)]
  /\ events' = [events EXCEPT ![r] = @ \o <<Ev("synthesize", "ok")>>]
  /\ Respond(r, SuccessResponse0(locals[r].userText, locals[r].assistantText, Base64(audio)))
  /\ UNCHANGED <<adminApp, CLEAN_TRANSCRIPT, request, reqId, firebaseUser, messages, thrown,
                 persist, chats, store, served>>

\* an awaited call rejects: part_000 lines 34, 42, 58, 65 into 73
Call0Fail(r, errs) ==
  /\ pc[r] \in {"stt0", "generate0", "tts0"}
  /\ \E err \in errs : Catch0(r, err, <<Ev(CallAt(pc[r]), "fail")>>)
  /\ UNCHANGED <<adminApp, CLEAN_TRANSCRIPT, request, reqId, firebaseUser, locals, messages,
                 persist, chats, store, served>>

----------------------------------------------------------------------------
(* Specifications *)

\* one request at a time, over the whole range of requests
Next ==
  \/ Receive(1, Requests, 1)
  \/ \E serviceUp \in BOOLEAN : VerifyFirebaseToken(1, serviceUp)
  \/ AskBegin(1)
  \/ \E t \in SttTexts : TranscribeDone(1, t)
  \/ \E t \in CleanTexts : CleanDone(1, t)
  \/ \E t \in ReplyTexts : GenerateDone(1, t)
  \/ \E a \in Audios : SynthesizeDone(1, a)
  \/ CallFail(1, ErrorsBasic)
  \/ ChatSetDone(1)
  \/ UserMessageAdded(1)
  \/ AssistantMessageAdded(1)
  \/ PersistFail(1)
  \/ Receive0(1, Requests0, 1)
  \/ Ask0Begin(1)
  \/ \E t \in SttTexts : Transcribe0Done(1, t)
  \/ \E t \in ReplyTexts : Generate0Done(1, t)
  \/ \E a \in Audios : Synthesize0Done(1, a)
  \/ Call0Fail(1, ErrorsBasic)

Spec == Init /\ [][Next]_vars

\* one voice request, over the whole range of error messages
NextErrors ==
  \/ Receive(1, ErrorRequests, 1)
  \/ \E serviceUp \in BOOLEAN : VerifyFirebaseToken(1, serviceUp)
  \/ AskBegin(1)
  \/ \E t \in {Str(<<"w">>)} : TranscribeDone(1, t)
  \/ \E t \in {Str(<<"k">>)} : CleanDone(1, t)
  \/ \E t \in {Str(<<"r">>)} : GenerateDone(1, t)
  \/ \E a \in Audios : SynthesizeDone(1, a)
  \/ CallFail(1, Errors)

SpecErrors == Init /\ [][NextErrors]_vars

\* requests of two users for one conversation, served concurrently
NextConcurrent ==
  \E r \in Slots :
    \/ Receive(r, ConcurrentRequests, MaxRequests)
    \/ \E serviceUp \in BOOLEAN : VerifyFirebaseToken(r, serviceUp)
    \/ AskBegin(r)
    \/ \E t \in {Str(<<"k">>)} : CleanDone(r, t)
    \/ \E t \in {Str(<<"r">>)} : GenerateDone(r, t)
    \/ \E a \in Audios : SynthesizeDone(r, a)
    \/ CallFail(r, {Err(<<>>, <<>>)})
    \/ ChatSetDone(r)
    \/ UserMessageAdded(r)
    \/ AssistantMessageAdded(r)
    \/ PersistFail(r)

SpecConcurrent == Init /\ [][NextConcurrent]_vars

----------------------------------------------------------------------------
(* Vocabulary of the properties *)

IsServer(r) == request[r].server = "server.js"
IsPart0(r) == request[r].server = "part_000"
Done(r) == pc[r] = "done"

\* the entries between the system prompt and the new user turn
Middle(m) == SubSeq(m, 2, Len(m) - 1)

\* a field that is not there, or is there and blank
Missing(v) == v.t = "undefined" \/ (v.t = "string" /\ Trim(v.s) = <<>>)

\* a field that holds a string with something in it
Given(v) == v.t = "string" /\ Trim(v.s) # <<>>

StartsOf(r, call) == {i \in 1..Len(events[r]) : events[r][i] = Ev(call, "start")}
Failed(r) == \E i \in 1..Len(events[r]) : events[r][i].ev = "fail"
Succeeded(r, call) == \E i \in 1..Len(events[r]) : events[r][i] = Ev(call, "ok")

\* the documents request number n wrote, in the order of their creation
Written(docs, n) == SelectSeq(docs, LAMBDA d : d.req = n)

\* the messages of one conversation of one user
Log(docs, uid, conversationId) ==
  SelectSeq(docs, LAMBDA d : d.uid = uid /\ d.conversationId = conversationId)

IsPrefix(a, b) == Len(a) <= Len(b) /\ SubSeq(b, 1, Len(a)) = a

----------------------------------------------------------------------------
(* C1 *)

\* C1: whatever the length of the history supplied, the history passed to the
\* reply generation, between the system prompt and the new user turn, has at
\* most 12 entries.
C1_HistoryAtMost12 ==
  \A r \in Slots : messages[r] # <<>> => Len(Middle(messages[r])) <= 12

\* a request with more than 12 turns of history reached the reply generation
C1_Witness ==
  \E r \in Slots :
    /\ IsServer(r) /\ Len(locals[r].clientHistory) > 12
    /\ messages[r] # <<>> /\ Len(Middle(messages[r])) = 12

----------------------------------------------------------------------------
(* C2 *)

WholePairs(h) ==
  /\ Len(h) % 2 = 0
  /\ \A i \in 1..Len(h) : h[i].role = IF i % 2 = 1 THEN "user" ELSE "assistant"

\* C2: the history used for generation is exactly the last min(n, 12) turns of
\* the history supplied, in their order, it consists of whole user/assistant
\* pairs, and the messages are the system prompt, that history, the new user
\* turn.
C2_LastWholePairs ==
  \A r \in Slots :
    (IsServer(r) /\ messages[r] # <<>>) =>
      LET h == locals[r].clientHistory
          n == Len(h)
          m == messages[r]
      IN  /\ Middle(m) = SubSeq(h, n - Min(n, 12) + 1, n)
          /\ WholePairs(Middle(m))
          /\ m[1].role = "system"
          /\ m[Len(m)] = [role |-> "user", content |-> locals[r].userText]

----------------------------------------------------------------------------
(* C3 *)

NoExternalCall(r) == events[r] = <<>>
NothingPersisted(r) ==
  /\ persist[r].written = 0
  /\ Written(store, reqId[r]) = <<>>

\* C3: a request with no (or blank) conversation identifier is rejected with
\* 400 missing_conversation; one that has a conversation identifier and lacks
\* both languages with 400 missing_language; the conversation is checked first,
\* and a rejected request makes no external call and persists nothing.
C3_ValidatorRejects ==
  \A r \in Slots :
    (IsServer(r) /\ Done(r)) =>
      LET q == request[r]
      IN  /\ Missing(q.conversationId) =>
               /\ response[r].status = 400
               /\ response[r].error = "missing_conversation"
               /\ NoExternalCall(r) /\ NothingPersisted(r)
          /\ (~Missing(q.conversationId) /\ Missing(q.answerLanguage)
                /\ Missing(q.speakLanguage)) =>
               /\ response[r].status = 400
               /\ response[r].error = "missing_language"
               /\ NoExternalCall(r) /\ NothingPersisted(r)

----------------------------------------------------------------------------
(* C4 *)

\* the request passes the checks that come before the choice of the input
PassesFieldChecks(r) ==
  /\ Given(request[r].conversationId)
  /\ Given(request[r].answerLanguage)
  /\ Given(request[r].speakLanguage)
  /\ request[r].uid.t # "number"
  /\ response[r].error # "unauthenticated"

\* C4: a request whose audio is below 5000 bytes is rejected with
\* audio_too_short, never transcribed, never answered with a success.
C4_ShortAudioRejected ==
  \A r \in Slots :
    (/\ IsServer(r) /\ Done(r) /\ PassesFieldChecks(r)
     /\ request[r].file.present /\ request[r].file.size < 5000) =>
      /\ response[r].status = 400
      /\ response[r].error = "audio_too_short"
      /\ StartsOf(r, "transcribe") = {}

----------------------------------------------------------------------------
(* C5 *)

Rank(call) ==
  CASE call = "transcribe" -> 1
    [] call = "clean" -> 2
    [] call = "generate" -> 3
    [] call = "synthesize" -> 4

\* the request brought audio that the handler transcribes
VoiceInput(r) ==
  /\ request[r].file.present
  /\ IsServer(r) => request[r].file.size >= 5000

\* C5: within one request the external calls happen in the order transcribe,
\* (optional) clean, generate, synthesize, each started only after the one
\* before it completed successfully, never two at once; when one fails no later
\* call is made, nothing is persisted and the response is an error.
C5_SequentialPipeline ==
  \A r \in Slots :
    LET e == events[r]
    IN  /\ \A i \in 1..Len(e) :
             /\ (i % 2 = 1) => e[i].ev = "start"
             /\ (i % 2 = 0) => e[i].ev \in {"ok", "fail"} /\ e[i].call = e[i - 1].call
             /\ e[i].ev = "fail" => i = Len(e)
        /\ \A i, j \in 1..Len(e) :
             (i < j /\ e[i].ev = "start" /\ e[j].ev = "start") =>
               Rank(e[i].call) < Rank(e[j].call)
        /\ \A i \in 1..Len(e) :
             e[i].ev = "start" =>
               CASE e[i].call = "transcribe" -> i = 1
                 [] e[i].call = "clean" ->
                      IF VoiceInput(r) THEN e[i - 1] = Ev("transcribe", "ok") ELSE i = 1
                 [] e[i].call = "generate" ->
                      IF VoiceInput(r) THEN e[i - 1] \in {Ev("transcribe", "ok"), Ev("clean", "ok")}
                      ELSE i = 1 \/ e[i - 1] = Ev("clean", "ok")
                 [] e[i].call = "synthesize" -> e[i - 1] = Ev("generate", "ok")
        /\ Failed(r) =>
             /\ NothingPersisted(r)
             /\ Done(r)
             /\ response[r].status >= 400
             /\ "error" \in response[r].keys
             /\ response[r].keys \cap {"transcript", "text", "audioBase64"} = {}

\* the reply generation failed after a transcription that succeeded
C5_Witness ==
  \E r \in Slots :
    /\ Done(r) /\ Succeeded(r, "transcribe")
    /\ events[r][Len(events[r])] = Ev("generate", "fail")

----------------------------------------------------------------------------
(* C6 *)

\* the spellings of a word
Spellings(w) ==
  CASE w = "too" -> {"too", "Too"}
    [] w = "language" -> {"language", "Language"}
    [] OTHER -> {w}

\* the message contains the pattern, whatever the case of its letters
ContainsAnyCase(m, pattern) ==
  \E i \in 1..Len(m) :
    /\ i + Len(pattern) - 1 <= Len(m)
    /\ \A k \in 1..Len(pattern) : m[i + k - 1] \in Spellings(pattern[k])

\* the message of an error: the provider's, else the error's own
MessageOf(err) == IF err.nested # <<>> THEN err.nested ELSE err.message

SaysTooShort(m) ==
  ContainsAnyCase(m, <<"too", "short">>) \/ ContainsAnyCase(m, <<"shorter", "than">>)
SaysInvalidLanguage(m) ==
  ContainsAnyCase(m, <<"invalid">>) /\ ContainsAnyCase(m, <<"language">>)

\* C6: a failure of an external call is mapped by its message, whatever its
\* case: too short (or shorter than) gives 400 audio_too_short, otherwise
\* invalid and language give 400 invalid_language, anything else gives 500
\* processing_failed; too short wins, and no failed call is retried.
C6_ErrorMapping ==
  \A r \in Slots :
    (IsServer(r) /\ Failed(r)) =>
      LET m == MessageOf(thrown[r].err)
      IN  /\ thrown[r].caught
          /\ <<response[r].status, response[r].error>> =
               IF SaysTooShort(m) THEN <<400, "audio_too_short">>
               ELSE IF SaysInvalidLanguage(m) THEN <<400, "invalid_language">>
               ELSE <<500, "processing_failed">>
          /\ \A call \in {"transcribe", "clean", "generate", "synthesize"} :
               Cardinality(StartsOf(r, call)) <= 1

\* a failure whose message matches both patterns, one of them in capitals
C6_Witness ==
  \E r \in Slots :
    /\ IsServer(r) /\ Failed(r)
    /\ thrown[r].err.message = <<"invalid", "Language", "Too", "short">>
    /\ response[r].error = "audio_too_short"

----------------------------------------------------------------------------
(* C7 *)

Vocabulary ==
  {"missing_conversation", "missing_language", "audio_too_short", "no_input",
   "invalid_language", "processing_failed"}

IsErrorResponse(r) == Done(r) /\ response[r].status # 200

\* C7 as stated: every error response carries a code of the fixed vocabulary,
\* a 4xx/5xx status and a message.
C7_FixedVocabulary ==
  \A r \in Slots :
    IsErrorResponse(r) =>
      /\ response[r].error \in Vocabulary
      /\ response[r].status \in 400..599
      /\ "message" \in response[r].keys

\* C7 amended: server.js answers an error with a code of the vocabulary or with
\* unauthenticated, a 4xx/5xx status and a message; the first revision answers
\* no_audio (400) or processing_failed (500) with no message.
C7_ErrorCodes ==
  \A r \in Slots :
    IsErrorResponse(r) =>
      /\ response[r].status \in 400..599
      /\ IsServer(r) =>
           /\ response[r].error \in Vocabulary \cup {"unauthenticated"}
           /\ response[r].keys = {"error", "message"}
           /\ response[r].message # Absent
      /\ IsPart0(r) =>
           /\ <<response[r].status, response[r].error>> \in
                {<<400, "no_audio">>, <<500, "processing_failed">>}
           /\ response[r].keys = {"error"}

\* a request answered 401 unauthenticated
C7_Witness ==
  \E r \in Slots :
    /\ IsServer(r) /\ IsErrorResponse(r)
    /\ response[r].status = 401 /\ response[r].error = "unauthenticated"

----------------------------------------------------------------------------
(* C8 *)

\* the request carried a token that verified and belongs to the uid it names
ProvedUid(r) ==
  /\ firebaseUser[r].present
  /\ firebaseUser[r].uid = Trim(request[r].uid.s)

\* C8: a request is processed, and its turn persisted under users/<uid>, only
\* if its token verified and the uid of the token is the uid supplied; with a
\* uid and a missing, malformed or invalid token, or another uid, it makes no
\* external call and writes nothing to the log of that user.
C8_OnlyVerifiedUsers ==
  \A r \in Slots :
    (IsServer(r) /\ pc[r] \notin {"idle", "middleware"} /\ Given(request[r].uid)) =>
      \/ ProvedUid(r)
      \/ /\ NoExternalCall(r)
         /\ persist[r].written = 0
         /\ \A i \in 1..Len(store) :
              store[i].req = reqId[r] => store[i].uid # Trim(request[r].uid.s)

----------------------------------------------------------------------------
(* C9 *)

\* C9: once the input, the generation and the synthesis succeeded, the caller
\* gets the success response {conversationId, transcript, text, audioBase64}
\* with the same content whether the writes all succeed, some fail or all
\* fail; a failed write gives no error response and no error mapping.
C9_BestEffortPersistence ==
  \A r \in Slots :
    (IsServer(r) /\ Done(r) /\ Succeeded(r, "synthesize")) =>
      /\ response[r].status = 200
      /\ response[r].keys = {"conversationId", "transcript", "text", "audioBase64"}
      /\ response[r].conversationId = Trim(request[r].conversationId.s)
      /\ response[r].transcript = locals[r].userText
      /\ response[r].text = locals[r].assistantText
      /\ response[r].audioBase64 = locals[r].base64Audio
      /\ response[r].error = Absent
      /\ ~thrown[r].caught

\* the user message was written, the write of the assistant message failed,
\* and the caller got the success response
C9_Witness ==
  \E r \in Slots :
    /\ IsServer(r) /\ Done(r)
    /\ persist[r].failed /\ persist[r].written = 2
    /\ response[r].status = 200

----------------------------------------------------------------------------
(* C10 *)

LogKeys == {<<d.uid, d.conversationId>> : d \in {store[i] : i \in 1..Len(store)}}

\* no request is between its two writes to the log
NoWriteInFlight == \A r \in Slots : pc[r] # "fs_assistant"

\* C10 as stated: the log of a conversation holds whole turns in order: it
\* alternates user/assistant, each user turn followed by the assistant turn of
\* the same request, under concurrency and under failing writes too.
C10_WholeTurns ==
  NoWriteInFlight =>
    \A key \in LogKeys :
      LET log == Log(store, key[1], key[2])
      IN  /\ WholePairs(log)
          /\ \A i \in 1..Len(log) : (i % 2 = 0) => log[i].req = log[i - 1].req

RolesWritten(docs, n) ==
  LET w == Written(docs, n) IN [i \in 1..Len(w) |-> w[i].role]

\* C10 amended: the log is append-only, under every interleaving: no entry is
\* deleted, trimmed or rewritten; a request appends nothing, or its user turn,
\* or its user turn and later its own assistant turn.  The two writes are not
\* atomic: the log need not alternate.
C10_AppendOnly ==
  [][/\ IsPrefix(store, store')
     /\ \A n \in 1..served' :
          RolesWritten(store', n) \in {<<>>, <<"user">>, <<"user", "assistant">>}]_vars

\* two requests for one conversation of one user, both user turns written
\* before either assistant turn
C10_Witness ==
  \E i \in 1..Len(store) :
    /\ i + 3 <= Len(store)
    /\ store[i].role = "user" /\ store[i + 1].role = "user"
    /\ store[i + 2].role = "assistant" /\ store[i + 3].role = "assistant"
    /\ store[i].req # store[i + 1].req
    /\ store[i].uid = store[i + 1].uid
    /\ store[i].conversationId = store[i + 1].conversationId

====
